---- MODULE Spec2Model ----
(***************************************************************************)
(* Air Quality Dashboard (src/app.py): a Streamlit script that is re-run   *)
(* from top to bottom on every user interaction.  One run of main() loads  *)
(* the two CSV files (cached by st.cache_data), reads the sidebar widgets  *)
(* of the selected tab, filters the selected dataset and renders it.       *)
(*                                                                         *)
(* Dates are day numbers, a timestamp is a (date, hour) pair, a raw CSV    *)
(* timestamp is a tuple of integers that parses only when it is a pair of  *)
(* a positive day number and an hour of the day.                           *)
(***************************************************************************)
EXTENDS Integers, Sequences, FiniteSets, TLC

VARIABLES
    remote,         \* the two CSV files as they are on the remote drive
    disk,           \* disk[f]: f.csv exists in the working directory
    downloads,      \* downloads[f]: completed gdown.download calls for f
    cached,         \* st.cache_data holds a result for load_data()
    loaded,         \* the cached (indoor, outdoor) pair of data frames
    bodyRuns,       \* executions of the body of load_data in this session
    pc,             \* position of the running script
    tab,            \* value of the "Select Dashboard" radio in this run
    date_range,     \* values returned by create_sidebar_filters ...
    hour_range,
    column,
    cooking_filter,
    filtered,       \* result of filter_data
    charted,        \* the frame create_visualizations was called with
    rendered,       \* elements written to the page by create_visualizations
    steps,          \* calls main has made in this run, in order
    error           \* the exception that ended this run, "" when none

vars == <<remote, disk, downloads, cached, loaded, bodyRuns, pc, tab,
          date_range, hour_range, column, cooking_filter, filtered, charted,
          rendered, steps, error>>

persistent == <<remote, disk, downloads, cached, loaded, bodyRuns>>
widgets == <<date_range, hour_range, column, cooking_filter>>

-----------------------------------------------------------------------------
(* Bounds of the model *)
MaxRows == 2        \* rows of a CSV file
MaxDate == 2        \* the data's dates are 1 .. MaxDate
HourStride == 23    \* the hours explored are the multiples of it, and 23
MaxBodyRuns == 2    \* executions of load_data's body that are explored

(* Program constants *)
MinHour == 0        \* st.slider("Select Hour Range", 0, 23, (0, 23))
MaxHour == 23

Files == {"indoor", "outdoor"}
Hours == {h \in MinHour..MaxHour : h % HourStride = 0 \/ h = MaxHour}
DataDates == 1..MaxDate
\* st.date_input leaves ten years around the default range to pick from
DateChoices == 0..(MaxDate + 1)

-----------------------------------------------------------------------------
(* Data frames *)

NaT == [nat |-> TRUE, date |-> 0, hour |-> 0]

\* whether a raw CSV timestamp is a well-formed date and time
WellFormed(raw) == Len(raw) = 2 /\ raw[1] >= 1 /\ raw[2] \in 0..23

\* pd.to_datetime(..., errors='coerce') on one cell
to_datetime(raw) ==
    IF Len(raw) = 2 /\ raw[1] >= 1 /\ raw[2] >= 0 /\ raw[2] <= 23
    THEN [nat |-> FALSE, date |-> raw[1], hour |-> raw[2]]
    ELSE NaT

\* pd.read_csv followed by the data cleaning: row i keeps index i
read_frame(csv) ==
    [columns |-> csv.columns,
     rows |-> [i \in 1..Len(csv.rows) |->
                 [idx |-> i,
                  ts |-> to_datetime(csv.rows[i].Datetime),
                  Cooking |-> csv.rows[i].Cooking]]]

EmptyFrame == [columns |-> {}, rows |-> <<>>]

ValidDates(df) == {df.rows[i].ts.date : i \in {j \in 1..Len(df.rows) : ~df.rows[j].ts.nat}}

SetMin(S) == CHOOSE x \in S : \A y \in S : x <= y
SetMax(S) == CHOOSE x \in S : \A y \in S : x >= y

\* df[time_col].min().date(), df[time_col].max().date(): NaT is skipped
min_date(df) == SetMin(ValidDates(df))
max_date(df) == SetMax(ValidDates(df))

\* numeric columns offered by the "Select Parameter" selectbox
numeric_cols(df) == {c \in df.columns : c # "entry_id"}

\* variant: the checkbox is read whether or not the frame has the column
cooking_value_unchecked(df, checkbox) == checkbox

\* cooking_filter as create_sidebar_filters returns it, given the checkbox
cooking_value(df, checkbox) ==
    IF "Cooking" \in df.columns THEN checkbox ELSE FALSE

-----------------------------------------------------------------------------
(* filter_data *)

\* variants: an upper bound that is excluded
date_le_strict(ts, d) == ~ts.nat /\ ts.date < d
hour_le_strict(ts, h) == ~ts.nat /\ ts.hour < h

\* variant: a missing timestamp compared as the epoch it is stored as
range_mask_epoch(r, dr, hr) ==
    /\ r.ts.date >= dr[1]
    /\ r.ts.date <= dr[2]
    /\ r.ts.hour >= hr[1]
    /\ r.ts.hour <= hr[2]

\* elementwise comparisons of pandas: a missing value compares False
date_ge(ts, d) == ~ts.nat /\ ts.date >= d
date_le(ts, d) == ~ts.nat /\ ts.date <= d
hour_ge(ts, h) == ~ts.nat /\ ts.hour >= h
hour_le(ts, h) == ~ts.nat /\ ts.hour <= h

range_mask(r, dr, hr) ==
    /\ date_ge(r.ts, dr[1])
    /\ date_le(r.ts, dr[2])
    /\ hour_ge(r.ts, hr[1])
    /\ hour_le(r.ts, hr[2])

cooking_mask(r, cf) == cf => r.Cooking = 1

\* the exception filter_data raises, "" when it returns
filter_error(df, dr, hr, cf) ==
    IF Len(dr) < 2 THEN "IndexError"
    ELSE IF cf /\ "Cooking" \notin df.columns THEN "KeyError"
    ELSE ""

filter_data(df, dr, hr, cf) ==
    LET ranged == SelectSeq(df.rows, LAMBDA r : range_mask(r, dr, hr))
    IN  SelectSeq(ranged, LAMBDA r : cooking_mask(r, cf))

-----------------------------------------------------------------------------
(* create_visualizations *)

\* the exception create_visualizations raises, "" when it returns
viz_error(rows, col) ==
    IF rows # <<>> /\ col = "None" THEN "KeyError" ELSE ""

\* variant: the notice is shown and the function goes on
viz_elements_no_return(rows, cols, col, high) ==
    (IF rows = <<>> THEN <<"warning">> ELSE <<>>)
    \o <<"download", "summary">>
    \o (IF col = "PM2.5" /\ high THEN <<"alert">> ELSE <<>>)
    \o <<"line">>
    \o (IF Cardinality(cols) > 1 THEN <<"heatmap">> ELSE <<"info">>)

\* variant: the heatmap asks for more than two numeric columns
viz_elements_wide(rows, cols, col, high) ==
    IF rows = <<>> THEN <<"warning">>
    ELSE IF col = "None" THEN <<"download">>
    ELSE <<"download", "summary">>
         \o (IF col = "PM2.5" /\ high THEN <<"alert">> ELSE <<>>)
         \o <<"line">>
         \o (IF Cardinality(cols) > 2 THEN <<"heatmap">> ELSE <<"info">>)

\* what it writes to the page, in order; high: the PM2.5 alert condition
\* (the selected column is "PM2.5" and its maximum exceeds 100).  Every
\* Streamlit call is taken to accept the arguments it is given.
viz_elements(rows, cols, col, high) ==
    IF rows = <<>> THEN <<"warning">>
    ELSE IF col = "None" THEN <<"download">>
    ELSE <<"download", "summary">>
         \o (IF col = "PM2.5" /\ high THEN <<"alert">> ELSE <<>>)
         \o <<"line">>
         \o (IF Cardinality(cols) > 1 THEN <<"heatmap">> ELSE <<"info">>)

-----------------------------------------------------------------------------
(* main *)

\* variant: both branches of main work on indoor_df
selected_frame_indoor(t) == loaded["indoor"]

\* the frame main works on for the selected tab
selected_frame(t) == loaded[t]

ResetRun ==
    /\ date_range' = <<>>
    /\ hour_range' = <<>>
    /\ column' = ""
    /\ cooking_filter' = FALSE
    /\ filtered' = <<>>
    /\ charted' = <<>>
    /\ rendered' = <<>>
    /\ steps' = <<>>
    /\ error' = ""

\* a user interaction reruns the script; st.radio yields the selected tab
Main(t) ==
    /\ pc \in {"idle", "done", "error"}
    /\ pc' = "load"
    /\ tab' = t
    /\ ResetRun
    /\ UNCHANGED persistent

\* variant: both existence checks look at indoor.csv
must_download_indoor(f) == ~disk["indoor"]

\* os.path.exists(f + ".csv") is False: the file has to be downloaded
must_download(f) == ~disk[f]

\* gdown.download is attempted for indoor.csv; then, unless that raised, for
\* outdoor.csv.  net[f] is what the network makes of the attempt: "ok" writes
\* the file, "none" writes nothing and returns, "raise" raises.
attempted(f, net) ==
    /\ must_download(f)
    /\ f = "outdoor" => ~(must_download("indoor") /\ net["indoor"] = "raise")

\* variant: load_data without the cache decorator
cache_never == FALSE

\* st.cache_data: a stored result is returned without running the body
cache_hit == cached

\* indoor_df, outdoor_df = load_data()
LoadData ==
    /\ pc = "load"
    /\ IF cache_hit
       THEN /\ pc' = "sidebar"
            /\ steps' = Append(steps, [call |-> "load_data", arg |-> "hit"])
            /\ UNCHANGED <<persistent, error>>
       ELSE /\ bodyRuns < MaxBodyRuns
            /\ bodyRuns' = bodyRuns + 1
            /\ steps' = Append(steps, [call |-> "load_data", arg |-> "miss"])
            /\ \E net \in [Files -> {"ok", "none", "raise"}] :
                 LET got == {f \in Files : attempted(f, net) /\ net[f] = "ok"}
                     raised == \E f \in Files : attempted(f, net) /\ net[f] = "raise"
                     now == [f \in Files |-> disk[f] \/ f \in got]
                 IN  /\ disk' = now
                     /\ downloads' = [f \in Files |->
                                        IF f \in got THEN downloads[f] + 1
                                        ELSE downloads[f]]
                     /\ IF raised
                        THEN /\ error' = "DownloadError"
                             /\ pc' = "error"
                             /\ UNCHANGED <<cached, loaded>>
                        ELSE IF \E f \in Files : ~now[f]
                        THEN /\ error' = "FileNotFoundError"
                             /\ pc' = "error"
                             /\ UNCHANGED <<cached, loaded>>
                        ELSE /\ loaded' = [f \in Files |-> read_frame(remote[f])]
                             /\ cached' = TRUE
                             /\ pc' = "sidebar"
                             /\ UNCHANGED error
            /\ UNCHANGED remote
    /\ UNCHANGED <<tab, widgets, filtered, charted, rendered>>

\* the values the date-range widget can return: the pair picked, or the
\* single date picked while the range is being chosen
DateSelections ==
    {<<a>> : a \in DateChoices}
    \cup {dr \in DateChoices \X DateChoices : dr[1] <= dr[2]}

HourSelections == {<<a, b>> \in Hours \X Hours : a <= b}

\* the options of the selectbox; an empty list of options yields None
ColumnSelections(df) ==
    IF numeric_cols(df) = {} THEN {"None"} ELSE numeric_cols(df)

\* create_sidebar_filters(df, prefix) for the selected tab
CreateSidebarFilters ==
    /\ pc = "sidebar"
    /\ steps' = Append(steps, [call |-> "create_sidebar_filters", arg |-> tab])
    /\ LET df == selected_frame(tab)
       IN  IF ValidDates(df) = {}
           THEN \* min() of a column without a valid timestamp is NaT
                /\ error' = "ValueError"
                /\ pc' = "error"
                /\ UNCHANGED widgets
           ELSE /\ \E dr \in DateSelections \cup {<<min_date(df), max_date(df)>>} :
                      date_range' = dr
                /\ \E hr \in HourSelections : hour_range' = hr
                /\ \E col \in ColumnSelections(df) : column' = col
                /\ \E checkbox \in BOOLEAN :
                      cooking_filter' = cooking_value(df, checkbox)
                /\ pc' = "filter"
                /\ UNCHANGED error
    /\ UNCHANGED <<persistent, tab, filtered, charted, rendered>>

\* filtered = filter_data(df, date_range, hour_range, cooking_filter, time_col)
FilterData ==
    /\ pc = "filter"
    /\ steps' = Append(steps, [call |-> "filter_data", arg |-> tab])
    /\ LET df == selected_frame(tab)
           err == filter_error(df, date_range, hour_range, cooking_filter)
       IN  IF err # ""
           THEN /\ error' = err
                /\ pc' = "error"
                /\ UNCHANGED filtered
           ELSE /\ filtered' = filter_data(df, date_range, hour_range, cooking_filter)
                /\ pc' = "viz"
                /\ UNCHANGED error
    /\ UNCHANGED <<persistent, tab, widgets, charted, rendered>>

\* create_visualizations(filtered, column, time_col, prefix)
CreateVisualizations ==
    /\ pc = "viz"
    /\ steps' = Append(steps, [call |-> "create_visualizations", arg |-> tab])
    /\ charted' = filtered
    /\ \E high \in BOOLEAN :
         rendered' = viz_elements(filtered, selected_frame(tab).columns, column, high)
    /\ LET err == viz_error(filtered, column)
       IN  IF err # ""
           THEN error' = err /\ pc' = "error"
           ELSE pc' = "done" /\ UNCHANGED error
    /\ UNCHANGED <<persistent, tab, widgets, filtered>>

-----------------------------------------------------------------------------
(* The CSV files explored *)

Stamps == (DataDates \X Hours) \cup {<<>>}

RawRows(cols) ==
    [Datetime : Stamps, Cooking : IF "Cooking" \in cols THEN {0, 1} ELSE {0}]

SeqsUpTo(S, n) == UNION {[1..k -> S] : k \in 0..n}

\* every file of at most MaxRows rows, with and without a Cooking column
AllCsv ==
    UNION {[columns : {cols}, rows : SeqsUpTo(RawRows(cols), MaxRows)] :
             cols \in {{"PM2.5"}, {"Cooking"}}}

Row(d, h, c) == [Datetime |-> <<d, h>>, Cooking |-> c]
BadRow == [Datetime |-> <<>>, Cooking |-> 0]

\* a sample of files for the sessions: the shapes of schema and content
\* that the script tells apart
SampleCsv ==
    { [columns |-> {"PM2.5", "Cooking"},
       rows |-> <<Row(1, MinHour, 1), BadRow, Row(MaxDate, MaxHour, 0)>>],
      [columns |-> {"PM2.5"}, rows |-> <<Row(MaxDate, MinHour, 0)>>],
      [columns |-> {"entry_id"}, rows |-> <<Row(1, MaxHour, 0)>>],
      [columns |-> {"PM2.5", "CO2"}, rows |-> <<BadRow>>] }

InitRun ==
    /\ date_range = <<>>
    /\ hour_range = <<>>
    /\ column = ""
    /\ cooking_filter = FALSE
    /\ filtered = <<>>
    /\ charted = <<>>
    /\ rendered = <<>>
    /\ steps = <<>>
    /\ error = ""

\* a session: the server starts with any of the files present or not
Init ==
    /\ remote \in [Files -> SampleCsv]
    /\ disk \in [Files -> BOOLEAN]
    /\ downloads = [f \in Files |-> 0]
    /\ cached = FALSE
    /\ loaded = [f \in Files |-> EmptyFrame]
    /\ bodyRuns = 0
    /\ pc = "idle"
    /\ tab = "indoor"
    /\ InitRun

Next ==
    \/ \E t \in Files : Main(t)
    \/ LoadData
    \/ CreateSidebarFilters
    \/ FilterData
    \/ CreateVisualizations

Spec == Init /\ [][Next]_vars

\* one run of the script over any file, both files being on disk
InitFilter ==
    /\ remote \in [Files -> AllCsv]
    /\ remote["outdoor"] = [columns |-> {"PM2.5"}, rows |-> <<>>]
    /\ disk = [f \in Files |-> TRUE]
    /\ downloads = [f \in Files |-> 0]
    /\ cached = FALSE
    /\ loaded = [f \in Files |-> EmptyFrame]
    /\ bodyRuns = 0
    /\ pc = "load"
    /\ tab = "indoor"
    /\ InitRun

NextFilter ==
    \/ LoadData
    \/ CreateSidebarFilters
    \/ FilterData

SpecFilter == InitFilter /\ [][NextFilter]_vars

-----------------------------------------------------------------------------
(* Properties *)

Range(s) == {s[i] : i \in 1..Len(s)}
Called(c) == \E i \in 1..Len(steps) : steps[i].call = c
LastCall == IF steps = <<>> THEN "" ELSE steps[Len(steps)].call
\* filter_data has returned in this run
Filtered == pc \in {"viz", "done"} \/ Called("create_visualizations")

RawStamp(f, i) == remote[f].rows[i].Datetime

\* the rows of file f that a date range, an hour range and a cooking flag
\* select, read off the CSV file itself
Wanted(f, dr, hr, cf) ==
    {i \in 1..Len(remote[f].rows) :
        /\ WellFormed(RawStamp(f, i))
        /\ dr[1] <= RawStamp(f, i)[1] /\ RawStamp(f, i)[1] <= dr[2]
        /\ hr[1] <= RawStamp(f, i)[2] /\ RawStamp(f, i)[2] <= hr[2]
        /\ cf => remote[f].rows[i].Cooking = 1}

\* rows is exactly the rows of the loaded frame of f with an index in S
ExactlyRows(rows, f, S) ==
    /\ {rows[i].idx : i \in 1..Len(rows)} = S
    /\ Len(rows) = Cardinality(S)
    /\ \A i \in 1..Len(rows) : rows[i] = loaded[f].rows[rows[i].idx]

\* C1: filter_data returns exactly the rows whose date lies in the date
\* range and whose hour lies in the hour range, both ends of both ranges
\* included, and whose Cooking value is 1 when the cooking flag is set; the
\* Cooking value plays no part when the flag is not set.
C1_FilterExact ==
    Filtered =>
        ExactlyRows(filtered, tab, Wanted(tab, date_range, hour_range, cooking_filter))

C1_Witness ==
    /\ pc = "viz"
    /\ cooking_filter
    /\ Len(filtered) = 1
    /\ Len(loaded[tab].rows) = 2
    /\ filtered[1].ts.date = date_range[2]
    /\ filtered[1].ts.hour = hour_range[1]
    /\ date_range[1] < date_range[2]
    /\ loaded[tab].rows[1].Cooking = 0

\* C2: a row with a malformed timestamp is loaded with a missing timestamp
\* and is in no result of filter_data; neither the load nor the filter
\* raises because of it (filter_data raises only on a short date selection).
C2_MalformedExcluded ==
    /\ cached =>
         \A f \in Files : \A i \in 1..Len(remote[f].rows) :
            ~WellFormed(RawStamp(f, i)) => loaded[f].rows[i].ts = NaT
    /\ Filtered =>
         \A i \in 1..Len(filtered) : WellFormed(RawStamp(tab, filtered[i].idx))
    /\ steps # <<>> => cached
    /\ (pc = "error" /\ LastCall = "filter_data") => Len(date_range) < 2

C2_Witness ==
    /\ pc = "viz"
    /\ \E i \in 1..Len(remote[tab].rows) : ~WellFormed(RawStamp(tab, i))
    /\ filtered # <<>>
    /\ date_range[1] = 0
    /\ hour_range[1] = MinHour

\* the values create_sidebar_filters returns when no widget was touched
DefaultFilters ==
    /\ ValidDates(loaded[tab]) # {}
    /\ date_range = <<min_date(loaded[tab]), max_date(loaded[tab])>>
    /\ hour_range = <<0, 23>>
    /\ ~cooking_filter

\* C9: with the default filter values filter_data returns every row that
\* has a valid timestamp, in the original order, and the loaded dataset is
\* as it was read.
C9_DefaultsKeepAll ==
    (Filtered /\ DefaultFilters) =>
        /\ filtered = SelectSeq(read_frame(remote[tab]).rows,
                                LAMBDA r : WellFormed(RawStamp(tab, r.idx)))
        /\ loaded[tab] = read_frame(remote[tab])

C9_Witness ==
    /\ pc = "viz"
    /\ DefaultFilters
    /\ Len(filtered) = 2
    /\ filtered[1].ts.date > filtered[2].ts.date
    /\ filtered[1].ts.hour > filtered[2].ts.hour

\* C3: on an empty result create_visualizations shows the notice and
\* nothing else; on a non-empty result it never shows the notice.
C3_EmptyShortCircuits ==
    Called("create_visualizations") =>
        IF charted = <<>>
        THEN rendered = <<"warning">> /\ pc = "done"
        ELSE "warning" \notin Range(rendered)

C3_Witness ==
    /\ pc = "done"
    /\ charted = <<>>
    /\ rendered = <<"warning">>
    /\ Wanted(tab, <<0, MaxDate + 1>>, <<MinHour, MaxHour>>, FALSE) # {}

\* C4: a file is downloaded only when it does not exist at the check, each
\* file at most once, and in an execution whose downloads all create their
\* file, a file is downloaded exactly when it did not exist itself.
C4_DownloadOnce ==
    [][\A f \in Files :
         /\ downloads'[f] # downloads[f] =>
               ~disk[f] /\ disk'[f] /\ downloads[f] = 0 /\ downloads'[f] = 1
         /\ (~cached /\ cached') => (downloads'[f] # downloads[f] <=> ~disk[f])
         /\ disk[f] => disk'[f]]_vars

C4_Witness ==
    /\ bodyRuns = 2
    /\ cached
    /\ downloads = [f \in Files |-> 1]

\* C5 as stated: the body of load_data runs at most once in a session.
C5_BodyRunsOnce == bodyRuns <= 1

\* C5, amended: an execution of the body that raises stores nothing, so the
\* body runs again at the next interaction; once an execution has
\* completed, the body never runs again and every later interaction
\* receives the data of that execution.
C5_LoadedOnce ==
    [][/\ cached => (cached' /\ loaded' = loaded /\ bodyRuns' = bodyRuns
                     /\ disk' = disk /\ downloads' = downloads)
       /\ (bodyRuns' # bodyRuns /\ error' # "") => ~cached'
       /\ pc' = "sidebar" =>
             (cached' /\ loaded' = [f \in Files |-> read_frame(remote[f])])]_vars

C5_Witness ==
    /\ pc = "done"
    /\ bodyRuns = 2
    /\ steps[1].arg = "hit"
    /\ tab = "outdoor"
    /\ cooking_filter

Order == <<"load_data", "create_sidebar_filters", "filter_data",
           "create_visualizations">>

\* C7: a run calls load_data, create_sidebar_filters, filter_data and
\* create_visualizations in this order, the last three for the selected tab
\* only, and the rows charted are the rows filter_data selects from the
\* selected dataset.
C7_OrderAndTab ==
    /\ Len(steps) <= Len(Order)
    /\ \A i \in 1..Len(steps) :
          /\ steps[i].call = Order[i]
          /\ i > 1 => steps[i].arg = tab
    /\ pc = "done" => Len(steps) = Len(Order)
    /\ Called("create_visualizations") =>
          ExactlyRows(charted, tab,
                      Wanted(tab, date_range, hour_range, cooking_filter))

C7_Witness ==
    /\ pc = "done"
    /\ tab = "outdoor"
    /\ charted # <<>>
    /\ remote["indoor"] # remote["outdoor"]
    /\ Len(remote["indoor"].rows) > Len(remote["outdoor"].rows)

\* C8: cooking_filter is true only for a dataset with a Cooking column, so
\* filter_data never reads a missing Cooking column, and a dataset without
\* the column is filtered by date and hour alone.
C8_CookingNeedsColumn ==
    /\ cooking_filter => "Cooking" \in remote[tab].columns
    /\ LastCall = "filter_data" => error # "KeyError"
    /\ (Filtered /\ "Cooking" \notin remote[tab].columns) =>
          ExactlyRows(filtered, tab, Wanted(tab, date_range, hour_range, FALSE))

C8_Witness ==
    /\ pc = "viz"
    /\ "Cooking" \notin remote[tab].columns
    /\ filtered # <<>>

\* C10: no run ends in an unhandled error because of the shape of the date
\* selection.
C10_NoDateShapeError == error # "IndexError"

====
